---- MODULE Spec2Model ----
(***************************************************************************)
(* Model of plugger (src/plugger/core.py): the discovery -> filter ->      *)
(* load -> validate -> resolve pipeline over setuptools entry points.      *)
(*                                                                         *)
(* Strings that the code splits on '.' (module paths, and the group names  *)
(* compared with their first component) are sequences of tokens in which   *)
(* "." is the separator: "foo.sub" is <<"foo", ".", "sub">>.               *)
(***************************************************************************)
EXTENDS Integers, Sequences, FiniteSets, TLC

\* Bounds of the model.
MaxDists == 3
MaxCalls == 2

\* Optional values: None, or Some(x).
None == {}
Some(x) == {x}

----------------------------------------------------------------------------
(* State: the installed environment, the last API call with its outcome,   *)
(* how many times each binding's load() has run in this process, the       *)
(* outcome of the latest load_all_plugins_for call per interface, and the  *)
(* number of loading calls made.                                           *)
VARIABLES env, last, loadCount, prevAll, calls

vars == <<env, last, loadCount, prevAll, calls>>

----------------------------------------------------------------------------
(* str.split('.')[0]: the tokens before the first separator.               *)
RECURSIVE SplitFirst(_)
SplitFirst(s) ==
    IF s = <<>> \/ Head(s) = "." THEN <<>> ELSE <<Head(s)>> \o SplitFirst(Tail(s))

----------------------------------------------------------------------------
(* The host program's interface classes (example_plugins/foo_bar/foo.py    *)
(* defines foo.Base; a second one lives in a sub-module of another root).  *)
FooBase  == [id |-> "foo.Base",      module |-> <<"foo">>,              name |-> "Base"]
FoodBase == [id |-> "food.api.Base", module |-> <<"food", ".", "api">>, name |-> "Base"]
Interfaces == {FooBase, FoodBase}

(* What an entry point's target reference resolves to when loaded: a class *)
(* (with the module it is defined in and the interfaces it subclasses), an *)
(* object that is not a class, or nothing (the reference does not resolve).*)
Objects ==
    [t \in {"foo:Bar", "foo.sub:Baz", "other:Bar", "third.impl:Bar",
            "other:Unrelated", "other:func", "other:missing"} |->
        CASE t = "foo:Bar"         -> [id |-> t, exists |-> TRUE,  isclass |-> TRUE,
                                       module |-> <<"foo">>, bases |-> {"foo.Base"}]
          [] t = "foo.sub:Baz"     -> [id |-> t, exists |-> TRUE,  isclass |-> TRUE,
                                       module |-> <<"foo", ".", "sub">>, bases |-> {"foo.Base"}]
          [] t = "other:Bar"       -> [id |-> t, exists |-> TRUE,  isclass |-> TRUE,
                                       module |-> <<"other">>, bases |-> {"foo.Base"}]
          [] t = "third.impl:Bar"  -> [id |-> t, exists |-> TRUE,  isclass |-> TRUE,
                                       module |-> <<"third", ".", "impl">>, bases |-> {"foo.Base"}]
          [] t = "other:Unrelated" -> [id |-> t, exists |-> TRUE,  isclass |-> TRUE,
                                       module |-> <<"other">>, bases |-> {}]
          [] t = "other:func"      -> [id |-> t, exists |-> TRUE,  isclass |-> FALSE,
                                       module |-> <<"other">>, bases |-> {}]
          [] t = "other:missing"   -> [id |-> t, exists |-> FALSE, isclass |-> FALSE,
                                       module |-> <<"other">>, bases |-> {}]]

(* Installed distributions the environment may hold.  `readable` is        *)
(* whether get_group_map(distribution) returns; `groups` is the map it     *)
(* returns, in iteration order: group -> {name -> raw entry point}.        *)
Dist(project, readable, groups) ==
    [project |-> project, readable |-> readable, groups |-> groups]
GroupMap(group, eps) == [group |-> group, eps |-> eps]
Raw(name, target) == [name |-> name, target |-> target]

Catalogue ==
    { Dist("foo", TRUE, << GroupMap(<<"foo">>,  << Raw("Base", "foo:Bar") >>),
                           GroupMap(<<"food">>, << Raw("Base", "foo:Bar") >>) >>),
      Dist("other", TRUE, << GroupMap(<<"foo">>, << Raw("Base", "other:Bar") >>) >>),
      Dist("third", TRUE, << GroupMap(<<"foo">>, << Raw("Other", "other:Bar"),
                                                    Raw("Base", "third.impl:Bar") >>) >>),
      Dist("foo-extras", TRUE, << GroupMap(<<"foo">>, << Raw("Base", "foo.sub:Baz") >>) >>),
      Dist("unrelated", TRUE, << GroupMap(<<"foo">>, << Raw("Base", "other:Unrelated") >>) >>),
      Dist("notclass", TRUE, << GroupMap(<<"foo">>, << Raw("Base", "other:func") >>) >>),
      Dist("broken", TRUE, << GroupMap(<<"foo">>, << Raw("Base", "other:missing") >>) >>),
      Dist("unreadable", FALSE, << >>) }

(* Environments: up to MaxDists installed distributions, each project once.*)
Environments ==
    UNION { { e \in [1..n -> Catalogue] : \A i, j \in 1..n : i # j => e[i] # e[j] }
            : n \in 0..MaxDists }

----------------------------------------------------------------------------
(* class EntryPoint: the raw entry point and its group; package is         *)
(* raw.dist.project_name, name is raw.name, load() is raw.load().          *)
EntryPoint(raw, group, dist) ==
    [group |-> group, name |-> raw.name, target |-> raw.target, package |-> dist.project]

(* The key of a binding: its group, its name and the declaring package.    *)
BindingKey(ep) == <<ep.group, ep.name, ep.package>>

(* _discover_entry_points: for distribution / for group / for raw entry.   *)
RECURSIVE ValuesOf(_, _, _)
ValuesOf(eps, group, dist) ==
    IF eps = <<>> THEN <<>>
    ELSE <<EntryPoint(Head(eps), group, dist)>> \o ValuesOf(Tail(eps), group, dist)

RECURSIVE ItemsOf(_, _)
ItemsOf(groups, dist) ==
    IF groups = <<>> THEN <<>>
    ELSE ValuesOf(Head(groups).eps, Head(groups).group, dist) \o ItemsOf(Tail(groups), dist)

RECURSIVE DiscoverFrom(_, _)
DiscoverFrom(dists, entry_points) ==
    IF dists = <<>> THEN [kind |-> "ok", eps |-> entry_points]
    ELSE IF ~Head(dists).readable THEN [kind |-> "MetadataError", eps |-> <<>>]
    ELSE DiscoverFrom(Tail(dists), entry_points \o ItemsOf(Head(dists).groups, Head(dists)))

discover_entry_points(environment) == DiscoverFrom(environment, <<>>)

(* get_entry_points: the list comprehension over discover().               *)
(* Variant: the two filters are joined by `or`.                            *)
Matches_either(ep, name, group) ==
    (name = None \/ Some(ep.name) = name) \/ (group = None \/ Some(ep.group) = group)

Matches(ep, name, group) ==
    (name = None \/ Some(ep.name) = name) /\ (group = None \/ Some(ep.group) = group)

RECURSIVE Comprehension(_, _, _)
Comprehension(eps, name, group) ==
    IF eps = <<>> THEN <<>>
    ELSE (IF Matches(Head(eps), name, group) THEN <<Head(eps)>> ELSE <<>>)
         \o Comprehension(Tail(eps), name, group)

get_entry_points(name, group, environment) ==
    LET discovered == discover_entry_points(environment)
    IN  IF discovered.kind # "ok" THEN discovered
        ELSE [kind |-> "ok", eps |-> Comprehension(discovered.eps, name, group)]

----------------------------------------------------------------------------
(* load_all_plugins_for: load each filtered entry point, keep subclasses   *)
(* of the interface, warn about the others.  An exception from load() or   *)
(* from issubclass() leaves the loop and the function.                     *)
LoadState(kind, plugins, warnings, loaded) ==
    [kind |-> kind, plugins |-> plugins, warnings |-> warnings, loaded |-> loaded]

(* Variant: a kept plugin is loaded a second time when it is appended.     *)
RECURSIVE LoadLoop_loading_twice(_, _, _)
LoadLoop_loading_twice(entry_points, interface, st) ==
    IF entry_points = <<>> THEN st
    ELSE LET this_entry_point == Head(entry_points)
             this_plugin == Objects[this_entry_point.target]
             loaded == Append(st.loaded, this_entry_point)
         IN  IF ~this_plugin.exists
               THEN LoadState("LoadError", <<>>, st.warnings, loaded)
             ELSE IF ~this_plugin.isclass
               THEN LoadState("TypeError", <<>>, st.warnings, loaded)
             ELSE IF interface.id \in this_plugin.bases
               THEN LoadLoop_loading_twice(Tail(entry_points), interface,
                        LoadState("ok", Append(st.plugins, this_plugin), st.warnings,
                                  Append(loaded, this_entry_point)))
             ELSE LoadLoop_loading_twice(Tail(entry_points), interface,
                      LoadState("ok", st.plugins,
                                Append(st.warnings, [plugin |-> this_entry_point,
                                                     interface |-> interface.id]),
                                loaded))

RECURSIVE LoadLoop(_, _, _)
LoadLoop(entry_points, interface, st) ==
    IF entry_points = <<>> THEN st
    ELSE LET this_entry_point == Head(entry_points)
             this_plugin == Objects[this_entry_point.target]
             loaded == Append(st.loaded, this_entry_point)
         IN  IF ~this_plugin.exists
               THEN LoadState("LoadError", <<>>, st.warnings, loaded)
             ELSE IF ~this_plugin.isclass
               THEN LoadState("TypeError", <<>>, st.warnings, loaded)
             ELSE IF interface.id \in this_plugin.bases
               THEN LoadLoop(Tail(entry_points), interface,
                             LoadState("ok", Append(st.plugins, this_plugin), st.warnings, loaded))
             ELSE LoadLoop(Tail(entry_points), interface,
                           LoadState("ok", st.plugins,
                                     Append(st.warnings, [plugin |-> this_entry_point,
                                                          interface |-> interface.id]),
                                     loaded))

(* Variant: entry points already loaded in this process are passed over.   *)
RECURSIVE NotYetLoaded(_)
NotYetLoaded(eps) ==
    IF eps = <<>> THEN <<>>
    ELSE (IF loadCount[BindingKey(Head(eps))] = 0 THEN <<Head(eps)>> ELSE <<>>)
         \o NotYetLoaded(Tail(eps))

load_all_plugins_for_skipping_loaded(interface, environment) ==
    LET group == SplitFirst(interface.module)
        name == interface.name
        filtered == get_entry_points(Some(name), Some(group), environment)
    IN  IF filtered.kind # "ok" THEN LoadState(filtered.kind, <<>>, <<>>, <<>>)
        ELSE LoadLoop(NotYetLoaded(filtered.eps), interface, LoadState("ok", <<>>, <<>>, <<>>))

load_all_plugins_for(interface, environment) ==
    LET group == SplitFirst(interface.module)
        name == interface.name
        filtered == get_entry_points(Some(name), Some(group), environment)
    IN  IF filtered.kind # "ok" THEN LoadState(filtered.kind, <<>>, <<>>, <<>>)
        ELSE LoadLoop(filtered.eps, interface, LoadState("ok", <<>>, <<>>, <<>>))

----------------------------------------------------------------------------
(* _get_external_plugin: the plugins whose root module differs from the    *)
(* interface's; more than one is a RuntimeError, otherwise element 0.      *)
(* Variant: the module paths are compared whole, without split('.')[0].    *)
RECURSIVE ExternalPlugins_whole_module(_, _)
ExternalPlugins_whole_module(plugins, interface) ==
    IF plugins = <<>> THEN <<>>
    ELSE (IF Head(plugins).module # interface.module
            THEN <<Head(plugins)>> ELSE <<>>)
         \o ExternalPlugins_whole_module(Tail(plugins), interface)

RECURSIVE ExternalPlugins(_, _)
ExternalPlugins(plugins, interface) ==
    IF plugins = <<>> THEN <<>>
    ELSE (IF SplitFirst(Head(plugins).module) # SplitFirst(interface.module)
            THEN <<Head(plugins)>> ELSE <<>>)
         \o ExternalPlugins(Tail(plugins), interface)

Resolved(kind, best, reported) == [kind |-> kind, best |-> best, reported |-> reported]

(* Variant: returns element 0 of the plugins given, not of the externals.   *)
get_external_plugin_first_given(plugins, interface) ==
    LET external_plugins == ExternalPlugins(plugins, interface)
        num_external_plugins == Len(external_plugins)
    IN  IF 1 < num_external_plugins
          THEN Resolved("TooManyPlugins", None, Some(num_external_plugins))
        ELSE IF num_external_plugins = 0
          THEN Resolved("IndexError", None, None)
        ELSE Resolved("ok", Some(plugins[1]), None)

get_external_plugin(plugins, interface) ==
    LET external_plugins == ExternalPlugins(plugins, interface)
        num_external_plugins == Len(external_plugins)
    IN  IF 1 < num_external_plugins
          THEN Resolved("TooManyPlugins", None, Some(num_external_plugins))
        ELSE IF num_external_plugins = 0
          THEN Resolved("IndexError", None, None)
        ELSE Resolved("ok", Some(external_plugins[1]), None)

(* The resolve_conflict parameter of load_best_plugin_for: the default, or *)
(* a caller's strategy (one that takes the first plugin, one that raises). *)
Resolvers == {"default", "first", "raising"}

resolve_conflict(resolver, plugins, interface) ==
    CASE resolver = "default" -> get_external_plugin(plugins, interface)
      [] resolver = "first"   -> Resolved("ok", Some(plugins[1]), None)
      [] resolver = "raising" -> Resolved("ResolverRaised", None, None)

(* load_best_plugin_for.                                                   *)
Best(kind, best, reported, resolver_calls, all) ==
    [kind |-> kind, best |-> best, reported |-> reported,
     resolver_calls |-> resolver_calls, all |-> all]

(* Variant: the conflict test is 1 <= len(plugins).                        *)
load_best_plugin_for_always_resolving(interface, resolver, environment) ==
    LET all == load_all_plugins_for(interface, environment)
        plugins == all.plugins
    IN  IF all.kind # "ok" THEN Best(all.kind, None, None, 0, all)
        ELSE IF plugins = <<>> THEN Best("NoPluginsFound", None, None, 0, all)
        ELSE LET r == resolve_conflict(resolver, plugins, interface)
             IN  Best(r.kind, r.best, r.reported, 1, all)

(* Variant: the empty list is not tested for and reaches the resolver.     *)
load_best_plugin_for_unchecked_empty(interface, resolver, environment) ==
    LET all == load_all_plugins_for(interface, environment)
        plugins == all.plugins
    IN  IF all.kind # "ok" THEN Best(all.kind, None, None, 0, all)
        ELSE IF Len(plugins) # 1
          THEN LET r == resolve_conflict(resolver, plugins, interface)
               IN  Best(r.kind, r.best, r.reported, 1, all)
        ELSE Best("ok", Some(plugins[1]), None, 0, all)

load_best_plugin_for(interface, resolver, environment) ==
    LET all == load_all_plugins_for(interface, environment)
        plugins == all.plugins
    IN  IF all.kind # "ok" THEN Best(all.kind, None, None, 0, all)
        ELSE IF plugins = <<>> THEN Best("NoPluginsFound", None, None, 0, all)
        ELSE IF 1 < Len(plugins)
          THEN LET r == resolve_conflict(resolver, plugins, interface)
               IN  Best(r.kind, r.best, r.reported, 1, all)
        ELSE Best("ok", Some(plugins[1]), None, 0, all)

----------------------------------------------------------------------------
CatalogueEntryPoints ==
    UNION { { ItemsOf(d.groups, d)[i] : i \in 1..Len(ItemsOf(d.groups, d)) } : d \in Catalogue }

Keys == { BindingKey(ep) : ep \in CatalogueEntryPoints }

Call(op, interface, name, group, resolver, kind, eps, plugins, best, reported, warnings, loaded, resolver_calls) ==
    [op |-> op, interface |-> interface, name |-> name, group |-> group,
     resolver |-> resolver, kind |-> kind, eps |-> eps, plugins |-> plugins,
     best |-> best, reported |-> reported, warnings |-> warnings,
     loaded |-> loaded, resolver_calls |-> resolver_calls]

NoCall == Call("none", None, None, None, None, "ok", <<>>, <<>>, None, None, <<>>, <<>>, 0)

(* The number of times load() ran on the binding `key` in one call.        *)
RECURSIVE LoadsOf(_, _)
LoadsOf(loaded, key) ==
    IF loaded = <<>> THEN 0
    ELSE (IF BindingKey(Head(loaded)) = key THEN 1 ELSE 0) + LoadsOf(Tail(loaded), key)

Counted(loaded) == [k \in Keys |-> loadCount[k] + LoadsOf(loaded, k)]

Init ==
    /\ env \in Environments
    /\ last = NoCall
    /\ loadCount = [k \in Keys |-> 0]
    /\ prevAll = [i \in Interfaces |-> None]
    /\ calls = 0

Names == {"Base", "Other"}
Groups == {<<"foo">>, <<"food">>}

Discover ==
    /\ \E d \in {discover_entry_points(env)} :
           last' = Call("discover", None, None, None, None, d.kind, d.eps,
                        <<>>, None, None, <<>>, <<>>, 0)
    /\ UNCHANGED <<env, loadCount, prevAll, calls>>

GetEntryPoints ==
    \E name \in {Some(n) : n \in Names} \cup {None},
       group \in {Some(g) : g \in Groups} \cup {None} :
        /\ \E f \in {get_entry_points(name, group, env)} :
               last' = Call("get_entry_points", None, name, group, None, f.kind, f.eps,
                            <<>>, None, None, <<>>, <<>>, 0)
        /\ UNCHANGED <<env, loadCount, prevAll, calls>>

LoadAll ==
    \E interface \in Interfaces :
        /\ calls < MaxCalls
        /\ \E all \in {load_all_plugins_for(interface, env)} :
               /\ last' = Call("load_all", Some(interface), None, None, None, all.kind, <<>>,
                               all.plugins, None, None, all.warnings, all.loaded, 0)
               /\ loadCount' = Counted(all.loaded)
               /\ prevAll' = [prevAll EXCEPT ![interface] =
                                 Some([kind |-> all.kind, plugins |-> all.plugins,
                                       count |-> IF prevAll[interface] = None THEN 1
                                                 ELSE (CHOOSE p \in prevAll[interface] : TRUE).count + 1])]
        /\ calls' = calls + 1
        /\ UNCHANGED env

LoadBest ==
    \E interface \in Interfaces, resolver \in Resolvers :
        /\ calls < MaxCalls
        /\ \E b \in {load_best_plugin_for(interface, resolver, env)} :
               /\ last' = Call("load_best", Some(interface), None, None, Some(resolver), b.kind, <<>>,
                               b.all.plugins, b.best, b.reported, b.all.warnings,
                               b.all.loaded, b.resolver_calls)
               /\ loadCount' = Counted(b.all.loaded)
        /\ calls' = calls + 1
        /\ UNCHANGED <<env, prevAll>>

Next == Discover \/ GetEntryPoints \/ LoadAll \/ LoadBest

Spec == Init /\ [][Next]_vars

----------------------------------------------------------------------------
(* Properties.                                                             *)
(*                                                                         *)
(* Error kinds: "NoPluginsFound" is the RuntimeError "No plugins found"    *)
(* (the spec's NotFoundError), "TooManyPlugins" is the RuntimeError "Too   *)
(* many (N) plugins" (the spec's AmbiguousResolutionError); "IndexError",  *)
(* "TypeError", "LoadError" and "MetadataError" are the exceptions of      *)
(* indexing an empty list, of issubclass() on a non-class, of load() and   *)
(* of get_group_map().                                                     *)

IsBest(interface, resolver) ==
    /\ last.op = "load_best"
    /\ last.interface = Some(interface)
    /\ last.resolver = Some(resolver)

IsAll(interface) == last.op = "load_all" /\ last.interface = Some(interface)

(* The positions of the plugins defined outside the interface's root module.*)
ExternalAt(plugins, interface) ==
    { n \in 1..Len(plugins) : SplitFirst(plugins[n].module) # SplitFirst(interface.module) }

(* What discovery gives in the current environment.                        *)
Discovered == discover_entry_points(env)

(* The positions, in the discovered list eps, of the bindings that match   *)
(* the interface's group and name.                                         *)
MatchingAt(eps, interface) ==
    { n \in 1..Len(eps) :
        eps[n].group = SplitFirst(interface.module) /\ eps[n].name = interface.name }

(* Among them: target does not resolve / resolves to a non-class / to a    *)
(* subclass of the interface.                                              *)
BrokenAt(eps, interface) ==
    { n \in MatchingAt(eps, interface) : ~Objects[eps[n].target].exists }

NonClassAt(eps, interface) ==
    { n \in MatchingAt(eps, interface) :
        Objects[eps[n].target].exists /\ ~Objects[eps[n].target].isclass }

ValidAt(eps, interface) ==
    { n \in MatchingAt(eps, interface) :
        /\ Objects[eps[n].target].exists
        /\ Objects[eps[n].target].isclass
        /\ interface.id \in Objects[eps[n].target].bases }

(* The n-th smallest member of a set of positions.                         *)
NthOf(S, j) == CHOOSE n \in S : Cardinality({ m \in S : m < n }) = j - 1

(* The values at the positions S of eps, in the order of eps.              *)
ValuesAt(eps, S) == [j \in 1..Cardinality(S) |-> Objects[eps[NthOf(S, j)].target]]

\* C1: when load_best_plugin_for (default resolver) has more than one valid
\* candidate and the number of external ones is 0 or at least 2, the call
\* fails with the ambiguity error reporting that count.
C1_AmbiguousOnZeroOrManyExternal ==
    \A interface \in Interfaces :
        (/\ IsBest(interface, "default")
         /\ 1 < Len(last.plugins)
         /\ Cardinality(ExternalAt(last.plugins, interface)) # 1)
        => /\ last.kind = "TooManyPlugins"
           /\ last.reported = Some(Cardinality(ExternalAt(last.plugins, interface)))

\* C2: if loading one matching binding fails, load_all_plugins_for does not
\* fail: it drops that candidate, records a warning naming the binding and
\* returns the values of every other valid candidate.
C2_LoadFailureAbsorbed ==
    \A interface \in Interfaces, d \in {Discovered} :
        (/\ IsAll(interface)
         /\ d.kind = "ok"
         /\ BrokenAt(d.eps, interface) # {}
         /\ NonClassAt(d.eps, interface) = {})
        => /\ last.kind = "ok"
           /\ last.plugins = ValuesAt(d.eps, ValidAt(d.eps, interface))
           /\ \A n \in BrokenAt(d.eps, interface) :
                 \E w \in 1..Len(last.warnings) : last.warnings[w].plugin = d.eps[n]

\* C3: when exactly one of the valid candidates is external,
\* load_best_plugin_for with the default resolver returns that candidate,
\* whatever the number and position of the internal ones.
C3_SingleExternalWins ==
    \A interface \in Interfaces :
        (/\ IsBest(interface, "default")
         /\ Cardinality(ExternalAt(last.plugins, interface)) = 1)
        => /\ last.kind = "ok"
           /\ \E n \in ExternalAt(last.plugins, interface) : last.best = Some(last.plugins[n])

C3_Witness ==
    /\ IsBest(FooBase, "default")
    /\ Len(last.plugins) = 3
    /\ ExternalAt(last.plugins, FooBase) = {2}
    /\ last.best = Some(last.plugins[2])

\* C4: when exactly one valid candidate survives, load_best_plugin_for
\* returns it and no conflict resolver (default or supplied) is invoked.
C4_SingleCandidateDirect ==
    (last.op = "load_best" /\ Len(last.plugins) = 1)
    => /\ last.kind = "ok"
       /\ last.best = Some(last.plugins[1])
       /\ last.resolver_calls = 0

C4_Witness ==
    /\ IsBest(FooBase, "raising")
    /\ Len(last.plugins) = 1
    /\ ExternalAt(last.plugins, FooBase) = {}
    /\ last.warnings # <<>>
    /\ last.best = Some(last.plugins[1])

\* C5: for an interface with no matching binding among the discovered ones,
\* load_all_plugins_for returns the empty list and load_best_plugin_for
\* fails with "No plugins found" without invoking the resolver.
C5_NoMatchingBindings ==
    \A interface \in Interfaces :
        (last.op \in {"load_all", "load_best"} /\ last.interface = Some(interface))
        => \A d \in {Discovered} :
              (d.kind = "ok" /\ MatchingAt(d.eps, interface) = {})
              => /\ last.op = "load_all" => (last.kind = "ok" /\ last.plugins = <<>>)
                 /\ last.op = "load_best"
                       => (last.kind = "NoPluginsFound" /\ last.resolver_calls = 0
                           /\ last.best = None)

C5_Witness ==
    /\ IsBest(FoodBase, "default")
    /\ Discovered.kind = "ok"
    /\ Len(Discovered.eps) >= 2
    /\ MatchingAt(Discovered.eps, FoodBase) = {}
    /\ last.kind = "NoPluginsFound"

(* The environment without the bindings of `interface` whose loaded value  *)
(* does not satisfy it.                                                    *)
InvalidFor(ep, interface) ==
    /\ ep.group = SplitFirst(interface.module)
    /\ ep.name = interface.name
    /\ Objects[ep.target].exists
    /\ ~(Objects[ep.target].isclass /\ interface.id \in Objects[ep.target].bases)

WithoutInvalid(environment, interface) ==
    [d \in 1..Len(environment) |->
        [environment[d] EXCEPT !.groups =
            [g \in 1..Len(environment[d].groups) |->
                [environment[d].groups[g] EXCEPT !.eps =
                    SelectSeq(environment[d].groups[g].eps,
                              LAMBDA raw : ~InvalidFor(EntryPoint(raw, environment[d].groups[g].group,
                                                                  environment[d]), interface))]]]]

\* C6: invalid candidates never appear in load_all_plugins_for's output;
\* while at least one valid candidate exists, load_best_plugin_for's outcome
\* is the one of the environment with the invalid bindings removed; and
\* validating a loaded value never raises.
C6_InvalidCandidatesInert ==
    \A interface \in Interfaces :
        /\ (last.op \in {"load_all", "load_best"} /\ last.interface = Some(interface))
              => /\ last.kind # "TypeError"
                 /\ \A n \in 1..Len(last.plugins) : interface.id \in last.plugins[n].bases
        /\ \A resolver \in Resolvers :
              (IsBest(interface, resolver) /\ ValidAt(Discovered.eps, interface) # {})
              => \E clean \in {load_best_plugin_for(interface, resolver,
                                                    WithoutInvalid(env, interface))} :
                    last.kind = clean.kind /\ last.best = clean.best

\* C7 (as stated): over any sequence of load_all_plugins_for and
\* load_best_plugin_for calls, load() runs at most once for a binding key.
C7_LoadedAtMostOnce == \A k \in Keys : loadCount[k] <= 1

\* C7 (amended): there is no load cache.  One call runs load() at most once
\* for a binding key, and a call that raises nothing from discovery, load()
\* or issubclass() runs it exactly once for every binding matching the
\* interface, however often the key was loaded before.
C7_LoadedOncePerCall ==
    [][ calls' = calls + 1 =>
          /\ \A k \in Keys : loadCount'[k] \in {loadCount[k], loadCount[k] + 1}
          /\ last'.kind \notin {"LoadError", "TypeError", "MetadataError"}
                => \A interface \in last'.interface, eps \in {Discovered.eps} :
                      \E matching \in {{ BindingKey(eps[n]) : n \in MatchingAt(eps, interface) }} :
                         \A k \in Keys :
                            loadCount'[k] = loadCount[k] + 1 <=> k \in matching ]_vars

C7_Witness ==
    /\ last.op = "load_best"
    /\ last.kind = "ok"
    /\ Len(last.loaded) >= 2
    /\ \A n \in 1..Len(last.loaded) : loadCount[BindingKey(last.loaded[n])] >= 2

\* C8: get_entry_points returns exactly the discovered entry points whose
\* group is the given group (when given) and whose name is the given name
\* (when given), in discovery order; with neither given it returns all of
\* them.
Selected(eps, name, group) ==
    { n \in 1..Len(eps) :
        /\ name # None => Some(eps[n].name) = name
        /\ group # None => Some(eps[n].group) = group }

C8_FilterIsSubsequence ==
    last.op = "get_entry_points"
    => \A d \in {Discovered} :
          d.kind = "ok"
          => \E selected \in {Selected(d.eps, last.name, last.group)} :
                /\ last.kind = "ok"
                /\ Len(last.eps) = Cardinality(selected)
                /\ \A j \in 1..Len(last.eps) : last.eps[j] = d.eps[NthOf(selected, j)]
                /\ (last.name = None /\ last.group = None) => last.eps = d.eps

C8_Witness ==
    /\ last.op = "get_entry_points"
    /\ last.name # None
    /\ last.group # None
    /\ Len(last.eps) >= 2
    /\ \E n \in 1..Len(Discovered.eps) :
          /\ n \notin Selected(Discovered.eps, last.name, last.group)
          /\ \E a, b \in Selected(Discovered.eps, last.name, last.group) : a < n /\ n < b

\* C9: in _discover_entry_points, a distribution whose metadata cannot be
\* read is skipped and the entry points of every other distribution are
\* returned; an empty environment gives an empty list.
C9_UnreadableSkipped ==
    last.op = "discover"
    => /\ last.kind = "ok"
       /\ last.eps = DiscoverFrom(SelectSeq(env, LAMBDA d : d.readable), <<>>).eps

\* C10: a load_all_plugins_for call returns what the previous call for the
\* same interface returned (the environment being unchanged): the valid
\* candidates' values, in discovery order.
C10_LoadAllRepeatable ==
    [][ (last'.op = "load_all" /\ calls' = calls + 1) =>
          \A interface \in last'.interface :
             /\ last'.kind = "ok"
                   => \E eps \in {Discovered.eps} :
                         last'.plugins = ValuesAt(eps, ValidAt(eps, interface))
             /\ \A p \in prevAll[interface] :
                   p.kind = last'.kind /\ p.plugins = last'.plugins ]_vars

C10_Witness ==
    /\ IsAll(FooBase)
    /\ Len(last.plugins) >= 2
    /\ last.warnings # <<>>
    /\ \E p \in prevAll[FooBase] : p.count >= 2 /\ p.plugins = last.plugins

(* The entry points, among those a call loaded, whose plugin was kept: the *)
(* n-th one is the binding of the n-th plugin.                             *)
KeptBindings(loaded, interface) ==
    SelectSeq(loaded, LAMBDA ep : interface.id \in Objects[ep.target].bases)

(* The positions of the plugins whose binding was declared by a package    *)
(* other than the interface's root module.                                 *)
DeclaredOutsideAt(bindings, interface) ==
    { n \in 1..Len(bindings) : <<bindings[n].package>> # SplitFirst(interface.module) }

\* C11 (as stated): the default resolver takes a candidate for external
\* exactly when the package that declared its binding differs from the
\* interface's defining namespace, wherever the loaded value is defined: the
\* plugin it returns is the only one so declared, and the count it reports
\* is the number of plugins so declared.
C11_ExternalByDeclaringPackage ==
    \A interface \in Interfaces :
        (IsBest(interface, "default") /\ 1 < Len(last.plugins))
        => \E outside \in {DeclaredOutsideAt(KeptBindings(last.loaded, interface), interface)} :
              /\ last.kind = "ok"
                    => \E n \in outside : outside = {n} /\ last.best = Some(last.plugins[n])
              /\ last.kind = "TooManyPlugins"
                    => last.reported = Some(Cardinality(outside))

\* C11 (amended): the default resolver takes a candidate for external
\* exactly when the root module the loaded class is defined in differs from
\* the interface's root module, whichever package declared the binding: with
\* no such plugin it fails indexing the empty list, with one it returns it,
\* with more it reports their number.
C11_ExternalByDefiningModule ==
    \A interface \in Interfaces :
        (IsBest(interface, "default") /\ 1 < Len(last.plugins))
        => \E external \in {ExternalAt(last.plugins, interface)} :
              /\ external = {} <=> last.kind = "IndexError"
              /\ Cardinality(external) = 1
                    <=> (last.kind = "ok"
                         /\ \E n \in external : last.best = Some(last.plugins[n]))
              /\ Cardinality(external) > 1
                    <=> (last.kind = "TooManyPlugins"
                         /\ last.reported = Some(Cardinality(external)))

C11_Witness ==
    /\ IsBest(FooBase, "default")
    /\ last.kind = "ok"
    /\ 1 < Len(last.plugins)
    /\ \E n \in DeclaredOutsideAt(KeptBindings(last.loaded, FooBase), FooBase) :
          /\ n \notin ExternalAt(last.plugins, FooBase)
          /\ last.best # Some(last.plugins[n])

====
